---- MODULE Spec2Model ----
(***************************************************************************)
(* Model of the Atari environment wrappers of                              *)
(* rlpack/environment/altered_atari_wrappers.py and of the target-network  *)
(* synchronisation of rlpack/estimator/softdqn.py.                         *)
(*                                                                         *)
(* Every wrapper is modelled on top of an arbitrary underlying             *)
(* environment: each underlying reset/step returns values drawn from small *)
(* sets.  One action models one whole call of a wrapper method.            *)
(***************************************************************************)
EXTENDS Integers, Sequences, FiniteSets, TLC

\* ---------------------------------------------------------------- bounds
NPix == 1          \* number of pixels (channels) of one raw frame
MaxReward == 1     \* rewards of one underlying step are in 0..MaxReward
MaxAction == 1     \* actions are 0..MaxAction, 0 is NOOP
MaxLives == 2      \* ale.lives() is in 0..MaxLives
MaxTraj == 2       \* cap on EpisodicLifeEnv.trajectory_length
MaxSkip == 4       \* MaxAndSkipEnv is built with skip in 0..MaxSkip
MaxK == 2          \* FrameStack is built with k in 0..MaxK
MaxSteps == 4      \* cap on the steps recorded after one FrameStack reset
MaxNoop == 3       \* NoopResetEnv is built with noop_max in 0..MaxNoop
NVars == 2         \* variables of one network (same builder for both scopes)
MaxQ == 1          \* variable values are q * Scale for q in 0..MaxQ
MaxTrainSteps == 2 \* cap on the number of runs of train_op

\* ------------------------------------------------------ program constants
DefaultSkip == 4       \* MaxAndSkipEnv(env, skip=4)
DefaultK == 4          \* FrameStack(env, 4)
DefaultNoopMax == 30   \* NoopResetEnv(env, noop_max=30)
NoopAction == 0        \* self.noop_action
TauNum == 1            \* self.tau = 0.001 = TauNum / TauDen
TauDen == 1000

Pixels == {0, 1}     \* a uint8 pixel, reduced to dark and lit
Frames == [1..NPix -> Pixels]
ZeroFrame == [p \in 1..NPix |-> 0]
FullFrame == [p \in 1..NPix |-> 1]
\* two distinct frames, for the wrappers that hand observations through
SampleFrames == {ZeroFrame, FullFrame}
Rewards == 0..MaxReward
Actions == 0..MaxAction
None == <<>>         \* Python None where a frame, list or object is expected
NoError == "none"    \* the call returned

VARIABLES
    \* EpisodicLifeEnv
    el_lives,              \* self.lives
    el_was_real_done,      \* self.was_real_done
    el_trajectory_length,  \* self.trajectory_length
    el_trajectory_reward,  \* self.trajectory_reward
    ale_lives,             \* env.unwrapped.ale.lives() of the wrapped environment
    el_under,              \* underlying calls made by the last wrapper call
    el_ret,                \* what the last wrapper call returned
    el_last_step,          \* history: what the underlying env reported to the last step()
    \* MaxAndSkipEnv
    ms_obs_buffer,         \* self._obs_buffer, two frames
    ms_skip,               \* self._skip
    ms_under,              \* underlying steps made by the last wrapper call
    ms_recent,             \* history: the (at most two) most recent raw observations
    ms_ret,                \* what the last wrapper call returned
    \* FrameStack / LazyFrames
    fs_k,                  \* self.k
    fs_frames,             \* self.frames, a deque with maxlen k
    fs_reset_ob,           \* history: the frame the last underlying reset returned
    fs_step_obs,           \* history: frames returned by underlying steps since that reset
    fs_ret,                \* what the last wrapper call returned
    \* NoopResetEnv
    nr_noop_max,           \* self.noop_max
    nr_override_num_noops, \* self.override_num_noops
    nr_env_obs,            \* history: the observation the underlying env produced last
    nr_under,              \* underlying calls made by the last wrapper call, in order
    nr_ret,                \* what the last wrapper call returned
    \* SoftDQN
    dqn_qnet,              \* values of the variables of scope "qnet"
    dqn_target,            \* values of the variables of scope "target_qnet"
    dqn_global_step,       \* tf.train.get_global_step()
    dqn_pc,                \* position inside SoftDQN.update
    dqn_batches,           \* batches the generator of update() still holds
    dqn_op                 \* the graph operation run last

el_vars == <<el_lives, el_was_real_done, el_trajectory_length, el_trajectory_reward,
             ale_lives, el_under, el_ret, el_last_step>>

\* ------------------------------------------------------- EpisodicLifeEnv
\* result of one call of the underlying env.step as EpisodicLifeEnv sees it
LifeStepResults == [obs : SampleFrames, reward : Rewards, done : BOOLEAN, lives : 0..MaxLives]

\* line 93: loss of a life is terminal only while lives remain
LifeLost_NoPositive(lives, self_lives) == lives < self_lives
LifeLost(lives, self_lives) == lives < self_lives /\ lives > 0

\* line 80: was_real_done is the done flag of the underlying step,
\* taken before the loss-of-life override of line 97
WasRealDone_AfterOverride(under_done, lives, self_lives) ==
    under_done \/ LifeLost(lives, self_lives)
WasRealDone(under_done, lives, self_lives) == under_done

\* __init__, lines 65-74; lives0 are the life counts the wrapped env may start with
EL_Init(lives0) ==
    /\ el_lives = 0
    /\ el_was_real_done = TRUE
    /\ el_trajectory_length = 0
    /\ el_trajectory_reward = 0
    /\ ale_lives \in lives0
    /\ el_under = [resets |-> 0, steps |-> <<>>]
    /\ el_ret = [op |-> "init"]
    /\ el_last_step = "nostep"

\* step, lines 76-110
EL_step ==
    \E action \in Actions, r \in LifeStepResults :
        /\ el_trajectory_length < MaxTraj
        /\ ale_lives' = r.lives
        /\ el_was_real_done' = WasRealDone(r.done, r.lives, el_lives)
        /\ el_trajectory_length' = IF r.done THEN 0 ELSE el_trajectory_length + 1
        /\ el_trajectory_reward' = IF r.done THEN 0 ELSE el_trajectory_reward + r.reward
        /\ el_lives' = r.lives
        /\ el_under' = [resets |-> 0,
                        steps |-> <<[action |-> action, obs |-> r.obs,
                                     reward |-> r.reward, done |-> r.done]>>]
        /\ el_ret' = [op |-> "step", obs |-> r.obs, reward |-> r.reward,
                      done |-> (r.done \/ LifeLost(r.lives, el_lives)),
                      episode |-> IF r.done
                                  THEN <<el_trajectory_reward + r.reward,
                                         el_trajectory_length + 1>>
                                  ELSE <<>>]
        /\ el_last_step' = IF r.done THEN "done" ELSE "notdone"

\* reset, lines 112-126
EL_reset ==
    \/ /\ el_was_real_done
       /\ \E obs \in SampleFrames, lives \in 0..MaxLives :
            /\ ale_lives' = lives
            /\ el_lives' = lives
            /\ el_under' = [resets |-> 1, steps |-> <<>>]
            /\ el_ret' = [op |-> "reset", obs |-> obs]
       /\ UNCHANGED <<el_was_real_done, el_trajectory_length,
                      el_trajectory_reward, el_last_step>>
    \/ /\ ~el_was_real_done
       /\ \E r \in LifeStepResults :
            /\ ale_lives' = r.lives
            /\ el_lives' = r.lives
            /\ el_under' = [resets |-> 0,
                            steps |-> <<[action |-> 0, obs |-> r.obs,
                                         reward |-> r.reward, done |-> r.done]>>]
            /\ el_ret' = [op |-> "reset", obs |-> r.obs]
       /\ UNCHANGED <<el_was_real_done, el_trajectory_length,
                      el_trajectory_reward, el_last_step>>

ms_vars == <<ms_obs_buffer, ms_skip, ms_under, ms_recent, ms_ret>>

\* --------------------------------------------------------- MaxAndSkipEnv
SkipStepResults(frames, rewards) == [obs : frames, reward : rewards, done : BOOLEAN]

Max(a, b) == IF a >= b THEN a ELSE b
\* line 152: self._obs_buffer.max(axis=0)
FrameMax(f, g) == [p \in 1..NPix |-> Max(f[p], g[p])]

RECURSIVE SumSeq(_)
SumSeq(s) == IF s = <<>> THEN 0 ELSE s[1] + SumSeq(Tail(s))

\* the last (at most two) elements of a sequence
LastTwo(s) == IF Len(s) <= 2 THEN s ELSE SubSeq(s, Len(s) - 1, Len(s))

\* lines 143-146: iteration i stores obs in slot 0 (TLA+ index 1) when
\* i = skip - 2 and in slot 1 (index 2) when i = skip - 1
StoreObs_Alternate(buf, i, skip, obs) == [buf EXCEPT ![(i % 2) + 1] = obs]
StoreObs(buf, i, skip, obs) ==
    LET b0 == IF i = skip - 2 THEN [buf EXCEPT ![1] = obs] ELSE buf
    IN  IF i = skip - 1 THEN [b0 EXCEPT ![2] = obs] ELSE b0

\* line 147: total_reward += reward
Accumulate_Overwrite(total, reward) == reward
Accumulate(total, reward) == total + reward

\* lines 141-149: the loop, from iteration i on; rs[i+1] is what the
\* underlying env answers to the call of iteration i
RECURSIVE SkipLoop(_, _, _, _, _)
SkipLoop(i, buf, total, rs, skip) ==
    IF i >= skip \/ i >= Len(rs)
    THEN [buf |-> buf, total |-> total, done |-> rs[i].done, n |-> i]
    ELSE IF rs[i + 1].done
         THEN [buf |-> StoreObs(buf, i, skip, rs[i + 1].obs),
               total |-> Accumulate(total, rs[i + 1].reward),
               done |-> TRUE, n |-> i + 1]
         ELSE SkipLoop(i + 1, StoreObs(buf, i, skip, rs[i + 1].obs),
                       Accumulate(total, rs[i + 1].reward), rs, skip)

\* __init__, lines 130-135
MS_Init(skips) ==
    /\ ms_obs_buffer = <<ZeroFrame, ZeroFrame>>
    /\ ms_skip \in skips
    /\ ms_under = [actions |-> <<>>, rewards |-> <<>>, dones |-> <<>>]
    /\ ms_recent = <<>>
    /\ ms_ret = [op |-> "init"]

\* step with skip <= 0: the loop body never runs and line 154 reads the
\* unbound local `info`
MS_step_unbound(actions) ==
    /\ ms_skip <= 0
    /\ \E action \in actions :
        /\ ms_under' = [actions |-> <<>>, rewards |-> <<>>, dones |-> <<>>]
        /\ ms_ret' = [op |-> "step", action |-> action, raised |-> "UnboundLocalError"]
    /\ UNCHANGED <<ms_obs_buffer, ms_skip, ms_recent>>

\* step, lines 137-159, on an underlying env whose observations are in
\* frames and whose rewards are in rewards
MS_step(frames, rewards, actions) ==
    /\ ms_skip > 0
    /\ \E action \in actions, n \in 1..ms_skip :
       \* the underlying env answers n calls: the first n-1 without done
       \E pre \in [1..(n - 1) -> {r \in SkipStepResults(frames, rewards) : ~r.done}],
          last \in {r \in SkipStepResults(frames, rewards) : n < ms_skip => r.done} :
       \E rs \in {Append(pre, last)} :
       \E st \in {SkipLoop(0, ms_obs_buffer, 0, rs, ms_skip)} :
            \* and the loop makes exactly these n calls
            /\ st.n = n
            /\ ms_obs_buffer' = st.buf
            /\ ms_under' = [actions |-> [j \in 1..n |-> action],
                            rewards |-> [j \in 1..n |-> rs[j].reward],
                            dones |-> [j \in 1..n |-> rs[j].done]]
            /\ ms_recent' = LastTwo(ms_recent \o [j \in 1..n |-> rs[j].obs])
            /\ ms_ret' = [op |-> "step", action |-> action, raised |-> NoError,
                          obs |-> FrameMax(st.buf[1], st.buf[2]),
                          reward |-> st.total, done |-> st.done,
                          real_reward |-> st.total, real_done |-> st.done]
    /\ UNCHANGED ms_skip

\* reset, lines 161-162
MS_reset(frames) ==
    /\ \E obs \in frames :
        /\ ms_ret' = [op |-> "reset", raised |-> NoError, obs |-> obs]
    /\ ms_under' = [actions |-> <<>>, rewards |-> <<>>, dones |-> <<>>]
    /\ ms_recent' = <<>>
    /\ UNCHANGED <<ms_obs_buffer, ms_skip>>

fs_vars == <<fs_k, fs_frames, fs_reset_ob, fs_step_obs, fs_ret>>

\* ------------------------------------------------- FrameStack, LazyFrames
RECURSIVE Concat(_)
\* np.concatenate(frames, axis=-1): a frame is the sequence of its channels
Concat(frames) == IF frames = <<>> THEN <<>> ELSE frames[1] \o Concat(Tail(frames))

\* collections.deque(maxlen=k).append, lines 209, 219, 224
DequeAppend_NoEvict(d, x, maxlen) == IF Len(d) >= maxlen THEN d ELSE Append(d, x)
DequeAppend(d, x, maxlen) ==
    IF maxlen = 0 THEN d
    ELSE IF Len(d) = maxlen THEN Append(Tail(d), x)
    ELSE Append(d, x)

RECURSIVE AppendTimes(_, _, _, _)
\* lines 218-219: for _ in range(k): self.frames.append(ob)
AppendTimes(d, x, times, maxlen) ==
    IF times = 0 THEN d
    ELSE AppendTimes(DequeAppend(d, x, maxlen), x, times - 1, maxlen)

\* LazyFrames.__init__, lines 329-338
LazyFrames(frames) == [_frames |-> frames, _out |-> None]

\* _get_ob, lines 227-229
FS_get_ob(op, frames, k, rest) ==
    IF Len(frames) = k
    THEN [op |-> op, raised |-> NoError, obs |-> LazyFrames(frames), rest |-> rest]
    ELSE [op |-> op, raised |-> "AssertionError", obs |-> None, rest |-> None]

\* __init__, lines 198-211
FS_Init(ks) ==
    /\ fs_k \in ks
    /\ fs_frames = <<>>
    /\ fs_reset_ob = None
    /\ fs_step_obs = <<>>
    /\ fs_ret = [op |-> "init", raised |-> NoError, obs |-> None, rest |-> None]

\* reset, lines 216-220
FS_reset ==
    \E ob \in SampleFrames :
        /\ fs_frames' = AppendTimes(fs_frames, ob, fs_k, fs_k)
        /\ fs_reset_ob' = ob
        /\ fs_step_obs' = <<>>
        /\ fs_ret' = FS_get_ob("reset", fs_frames', fs_k, None)
        /\ UNCHANGED fs_k

\* step, lines 222-225
FS_step ==
    \E action \in Actions, ob \in SampleFrames, reward \in Rewards, done \in BOOLEAN :
        /\ Len(fs_step_obs) < MaxSteps
        /\ fs_frames' = DequeAppend(fs_frames, ob, fs_k)
        /\ fs_step_obs' = Append(fs_step_obs, ob)
        /\ fs_ret' = FS_get_ob("step", fs_frames', fs_k, <<reward, done>>)
        /\ UNCHANGED <<fs_k, fs_reset_ob>>

\* LazyFrames._force on the observation returned last, lines 340-344;
\* np.concatenate of an empty list raises, which leaves the object as it was
LF_force ==
    /\ fs_ret.obs # None
    /\ fs_ret.obs._out = None
    /\ fs_ret.obs._frames # <<>>
    /\ fs_ret' = [fs_ret EXCEPT !.obs = [_frames |-> None,
                                         _out |-> Concat(fs_ret.obs._frames)]]
    /\ UNCHANGED <<fs_k, fs_frames, fs_reset_ob, fs_step_obs>>

nr_vars == <<nr_noop_max, nr_override_num_noops, nr_env_obs, nr_under, nr_ret>>

\* ---------------------------------------------------------- NoopResetEnv
\* what the underlying env answers to one no-op step, and to the reset that
\* follows it when the step reported done
NoopResults == [obs : SampleFrames, done : {FALSE}, reset_obs : {None}]
               \cup [obs : SampleFrames, done : {TRUE}, reset_obs : SampleFrames]

\* line 30: np_random.randint(1, noop_max + 1) draws from [1, noop_max]
NoopChoices(noop_max) == 1..noop_max

\* lines 34-36: obs after one iteration of the loop
ObsAfterNoop_KeepStep(r) == r.obs
ObsAfterNoop(r) == IF r.done THEN r.reset_obs ELSE r.obs

StepCall(action, done) == [call |-> "step", action |-> action, done |-> done]
ResetCall == [call |-> "reset", action |-> None, done |-> FALSE]

\* lines 33-36: the loop, from iteration i on; env_obs and calls record what
\* the underlying env produced last and which calls it received
RECURSIVE NoopLoop(_, _, _, _, _, _)
NoopLoop(i, obs, env_obs, calls, rs, noops) ==
    IF i > noops THEN [obs |-> obs, env_obs |-> env_obs, calls |-> calls]
    ELSE NoopLoop(i + 1,
                  ObsAfterNoop(rs[i]),
                  IF rs[i].done THEN rs[i].reset_obs ELSE rs[i].obs,
                  IF rs[i].done
                  THEN calls \o <<StepCall(NoopAction, TRUE), ResetCall>>
                  ELSE Append(calls, StepCall(NoopAction, FALSE)),
                  rs, noops)

\* __init__, lines 14-22
NR_Init(noop_maxes) ==
    /\ nr_noop_max \in noop_maxes
    /\ nr_override_num_noops = None
    /\ nr_env_obs = None
    /\ nr_under = <<>>
    /\ nr_ret = [op |-> "init", raised |-> NoError, obs |-> None, rest |-> None]

\* reset, lines 24-37, with override_num_noops None
NR_reset ==
    /\ nr_override_num_noops = None
    /\ NoopChoices(nr_noop_max) # {}
    /\ \E ob0 \in SampleFrames, noops \in NoopChoices(nr_noop_max) :
       \E rs \in [1..noops -> NoopResults] :
       \E st \in {NoopLoop(1, None, ob0, <<ResetCall>>, rs, noops)} :
            /\ nr_env_obs' = st.env_obs
            /\ nr_under' = st.calls
            /\ nr_ret' = [op |-> "reset", raised |-> NoError, obs |-> st.obs, rest |-> None]
    /\ UNCHANGED <<nr_noop_max, nr_override_num_noops>>

\* reset with noop_max <= 0: randint(1, noop_max + 1) has an empty range and
\* raises after the underlying reset of line 26
NR_reset_empty_range ==
    /\ nr_override_num_noops = None
    /\ NoopChoices(nr_noop_max) = {}
    /\ \E ob0 \in SampleFrames :
        /\ nr_env_obs' = ob0
        /\ nr_under' = <<ResetCall>>
        /\ nr_ret' = [op |-> "reset", raised |-> "ValueError", obs |-> None, rest |-> None]
    /\ UNCHANGED <<nr_noop_max, nr_override_num_noops>>

\* step, lines 39-40
NR_step ==
    /\ \E ac \in Actions, ob \in SampleFrames, reward \in Rewards, done \in BOOLEAN :
        /\ nr_env_obs' = ob
        /\ nr_under' = <<StepCall(ac, done)>>
        /\ nr_ret' = [op |-> "step", raised |-> NoError, obs |-> ob, rest |-> <<reward, done>>]
    /\ UNCHANGED <<nr_noop_max, nr_override_num_noops>>

dqn_vars == <<dqn_qnet, dqn_target, dqn_global_step, dqn_pc, dqn_batches, dqn_op>>

\* --------------------------------------------------------------- SoftDQN
\* Values are fixed-point numbers: every initial value and every value an
\* optimizer step writes is a multiple of Scale, so that MaxTrainSteps soft
\* updates with tau = TauNum / TauDen are exact.
RECURSIVE Power(_, _)
Power(b, e) == IF e = 0 THEN 1 ELSE b * Power(b, e - 1)
Scale == Power(TauDen, MaxTrainSteps)
QVals == {q * Scale : q \in 0..MaxQ}

\* lines 33-44: the same network builder runs in scope "qnet" and in scope
\* "target_qnet"; a variable is named <scope>/<suffix>, suffixes are 1..NVars
NetVars == 1..NVars
Variable(scope, suffix) == [scope |-> scope, suffix |-> suffix]
TrainableVariables == {Variable("qnet", v) : v \in NetVars}
GlobalVariables == TrainableVariables
                   \cup {Variable("target_qnet", v) : v \in NetVars}
                   \cup {Variable("global_step", 0)}

\* tf.trainable_variables(scope) / tf.global_variables(scope): the scope
\* argument is matched against the beginning of the name
ScopeMatches(scope, name) ==
    \/ scope = "qnet" /\ name.scope = "qnet"
    \/ scope = "target" /\ name.scope = "target_qnet"

RECURSIVE SortedByName(_)
\* sorted(params, key=lambda v: v.name) within one scope
SortedByName(S) ==
    IF S = {} THEN <<>>
    ELSE LET m == CHOOSE x \in S : \A y \in S : x.suffix <= y.suffix
         IN  <<m>> \o SortedByName(S \ {m})

\* lines 65-66
Params1 == SortedByName({x \in TrainableVariables : ScopeMatches("qnet", x)})
\* lines 67-68
Params2 == SortedByName({x \in GlobalVariables : ScopeMatches("target", x)})

\* line 74: self.tau * (param1 - param2) + param2
SoftUpdate_Hard(param1, param2) == param1
SoftUpdate(param1, param2) == (TauNum * (param1 - param2)) \div TauDen + param2

\* line 59: the assignments are created under control_dependencies([train_op])
\* and so read the online variables after the optimizer step
OnlineRead(before, after) == after

\* lines 72-75 run as part of train_op: new values of the target variables
UpdateTarget(qnet_before, qnet_after, target) ==
    [v \in NetVars |->
        IF \E j \in 1..Len(Params2) : Params2[j].suffix = v
        THEN LET j == CHOOSE j \in 1..Len(Params2) : Params2[j].suffix = v
                 online == OnlineRead(qnet_before, qnet_after)
             IN  SoftUpdate(online[Params1[j].suffix], target[v])
        ELSE target[v]]

\* variable initialisation
DQN_Init(qvals, tvals) ==
    /\ dqn_qnet \in [NetVars -> qvals]
    /\ dqn_target \in [NetVars -> tvals]
    /\ dqn_global_step = 0
    /\ dqn_pc = "idle"
    /\ dqn_batches = 0
    /\ dqn_op = "init"

\* get_action, lines 116-123: one run of self.qvals
DQN_get_action ==
    /\ dqn_pc = "idle"
    /\ dqn_op' = "qvals"
    /\ UNCHANGED <<dqn_qnet, dqn_target, dqn_global_step, dqn_pc, dqn_batches>>

\* update, lines 79-80: the batch generator is created
DQN_update_begin ==
    /\ dqn_pc = "idle"
    /\ \E nb \in 0..(MaxTrainSteps - dqn_global_step) : dqn_batches' = nb
    /\ dqn_pc' = "next_batch"
    /\ UNCHANGED <<dqn_qnet, dqn_target, dqn_global_step, dqn_op>>

\* update, lines 84-98: next batch, one run of self.target_qvals
DQN_target_eval ==
    /\ dqn_pc = "next_batch"
    /\ dqn_batches > 0
    /\ dqn_batches' = dqn_batches - 1
    /\ dqn_op' = "target_qvals"
    /\ dqn_pc' = "train"
    /\ UNCHANGED <<dqn_qnet, dqn_target, dqn_global_step>>

\* update, lines 100-109: one run of self.train_op (lines 54-62): the
\* optimizer step on var_list = trainable_variables('qnet'), then the
\* assignments of _get_update_target_op
DQN_train ==
    /\ dqn_pc = "train"
    /\ \E stepped \in [NetVars -> QVals] :
        /\ dqn_qnet' = stepped
        /\ dqn_target' = UpdateTarget(dqn_qnet, stepped, dqn_target)
    /\ dqn_global_step' = dqn_global_step + 1
    /\ dqn_op' = "train_op"
    /\ dqn_pc' = "next_batch"
    /\ UNCHANGED dqn_batches

\* update, lines 110-114: StopIteration ends the loop
DQN_update_end ==
    /\ dqn_pc = "next_batch"
    /\ dqn_batches = 0
    /\ dqn_pc' = "idle"
    /\ UNCHANGED <<dqn_qnet, dqn_target, dqn_global_step, dqn_batches, dqn_op>>

vars == <<el_vars, ms_vars, fs_vars, nr_vars, dqn_vars>>

\* ------------------------------------------------------- specifications
\* Each specification exercises one class on top of an arbitrary underlying
\* environment; the other objects stay as their constructors (with the
\* arguments of make_atari) leave them.

InitLife ==
    /\ EL_Init(0..MaxLives)
    /\ MS_Init({DefaultSkip})
    /\ FS_Init({DefaultK})
    /\ NR_Init({DefaultNoopMax})
    /\ DQN_Init({0}, {0})
NextLife ==
    \/ EL_step /\ UNCHANGED <<ms_vars, fs_vars, nr_vars, dqn_vars>>
    \/ EL_reset /\ UNCHANGED <<ms_vars, fs_vars, nr_vars, dqn_vars>>
SpecLife == InitLife /\ [][NextLife]_vars

\* MaxAndSkipEnv on an env that shows one frame only: rewards and actions vary
InitSkipReward ==
    /\ EL_Init({0})
    /\ MS_Init(0..MaxSkip)
    /\ FS_Init({DefaultK})
    /\ NR_Init({DefaultNoopMax})
    /\ DQN_Init({0}, {0})
NextSkipReward ==
    \/ MS_step({ZeroFrame}, Rewards, Actions)
          /\ UNCHANGED <<el_vars, fs_vars, nr_vars, dqn_vars>>
    \/ MS_step_unbound(Actions) /\ UNCHANGED <<el_vars, fs_vars, nr_vars, dqn_vars>>
    \/ MS_reset({ZeroFrame}) /\ UNCHANGED <<el_vars, fs_vars, nr_vars, dqn_vars>>
SpecSkipReward == InitSkipReward /\ [][NextSkipReward]_vars

\* MaxAndSkipEnv on an env that never rewards: frames vary
InitSkipObs ==
    /\ EL_Init({0})
    /\ MS_Init(0..MaxSkip)
    /\ FS_Init({DefaultK})
    /\ NR_Init({DefaultNoopMax})
    /\ DQN_Init({0}, {0})
NextSkipObs ==
    \/ MS_step(Frames, {0}, {NoopAction})
          /\ UNCHANGED <<el_vars, fs_vars, nr_vars, dqn_vars>>
    \/ MS_step_unbound({NoopAction}) /\ UNCHANGED <<el_vars, fs_vars, nr_vars, dqn_vars>>
    \/ MS_reset(Frames) /\ UNCHANGED <<el_vars, fs_vars, nr_vars, dqn_vars>>
SpecSkipObs == InitSkipObs /\ [][NextSkipObs]_vars

InitStack ==
    /\ EL_Init({0})
    /\ MS_Init({DefaultSkip})
    /\ FS_Init(0..MaxK)
    /\ NR_Init({DefaultNoopMax})
    /\ DQN_Init({0}, {0})
NextStack ==
    \/ FS_reset /\ UNCHANGED <<el_vars, ms_vars, nr_vars, dqn_vars>>
    \/ FS_step /\ UNCHANGED <<el_vars, ms_vars, nr_vars, dqn_vars>>
    \/ LF_force /\ UNCHANGED <<el_vars, ms_vars, nr_vars, dqn_vars>>
SpecStack == InitStack /\ [][NextStack]_vars

InitNoop ==
    /\ EL_Init({0})
    /\ MS_Init({DefaultSkip})
    /\ FS_Init({DefaultK})
    /\ NR_Init(0..MaxNoop)
    /\ DQN_Init({0}, {0})
NextNoop ==
    \/ NR_reset /\ UNCHANGED <<el_vars, ms_vars, fs_vars, dqn_vars>>
    \/ NR_reset_empty_range /\ UNCHANGED <<el_vars, ms_vars, fs_vars, dqn_vars>>
    \/ NR_step /\ UNCHANGED <<el_vars, ms_vars, fs_vars, dqn_vars>>
SpecNoop == InitNoop /\ [][NextNoop]_vars

\* the online variables start at 0 (every optimizer step overwrites them with
\* arbitrary values), the target variables start anywhere
InitDQN ==
    /\ EL_Init({0})
    /\ MS_Init({DefaultSkip})
    /\ FS_Init({DefaultK})
    /\ NR_Init({DefaultNoopMax})
    /\ DQN_Init({0}, QVals)
NextDQN ==
    \/ DQN_get_action /\ UNCHANGED <<el_vars, ms_vars, fs_vars, nr_vars>>
    \/ DQN_update_begin /\ UNCHANGED <<el_vars, ms_vars, fs_vars, nr_vars>>
    \/ DQN_target_eval /\ UNCHANGED <<el_vars, ms_vars, fs_vars, nr_vars>>
    \/ DQN_train /\ UNCHANGED <<el_vars, ms_vars, fs_vars, nr_vars>>
    \/ DQN_update_end /\ UNCHANGED <<el_vars, ms_vars, fs_vars, nr_vars>>
SpecDQN == InitDQN /\ [][NextDQN]_vars

\* --------------------------------------------------------------- claims

\* C1: EpisodicLifeEnv.step returns done exactly when the underlying step
\* reported done, or the life count read after the step is lower than the one
\* recorded at the previous step/reset and still positive; observation and
\* reward are those of the one underlying step.
C1_StepDone ==
    [][el_ret'.op = "step" =>
         /\ el_under'.resets = 0
         /\ Len(el_under'.steps) = 1
         /\ el_ret'.done <=> (\/ el_under'.steps[1].done
                              \/ (ale_lives' < el_lives /\ ale_lives' > 0))
         /\ el_ret'.obs = el_under'.steps[1].obs
         /\ el_ret'.reward = el_under'.steps[1].reward]_vars

\* a step that lost a life (lives remain) returned done although the
\* underlying step did not report done
C1_Witness ==
    /\ el_ret.op = "step"
    /\ el_ret.done
    /\ ~el_under.steps[1].done
    /\ el_lives > 0

\* C2: EpisodicLifeEnv.reset calls the underlying reset exactly when the most
\* recent step saw the underlying env report done or no step was made since
\* construction; otherwise it makes one underlying step with action 0 and no
\* underlying reset.
C2_ResetOnlyOnGameOver ==
    el_ret.op = "reset" =>
        IF el_last_step \in {"done", "nostep"}
        THEN el_under.resets = 1 /\ el_under.steps = <<>>
        ELSE /\ el_under.resets = 0
             /\ Len(el_under.steps) = 1
             /\ el_under.steps[1].action = 0

\* a reset after a step that ended a life but not the game made a no-op step
C2_Witness ==
    /\ el_ret.op = "reset"
    /\ el_last_step = "notdone"
    /\ el_under.resets = 0
    /\ Len(el_under.steps) = 1

\* C3: MaxAndSkipEnv.step repeats the action for at most skip underlying
\* steps, stops right after the first done, returns the sum of the rewards of
\* the executed steps and the done flag of the last one, and reports both in
\* info as real_reward and real_done.
C3_SkipSum ==
    (ms_ret.op = "step" /\ ms_ret.raised = NoError) =>
        LET n == Len(ms_under.dones)
        IN  /\ n \in 1..ms_skip
            /\ Len(ms_under.actions) = n /\ Len(ms_under.rewards) = n
            /\ \A j \in 1..n : ms_under.actions[j] = ms_ret.action
            /\ \A j \in 1..(n - 1) : ~ms_under.dones[j]
            /\ n < ms_skip => ms_under.dones[n]
            /\ ms_ret.reward = SumSeq(ms_under.rewards)
            /\ ms_ret.done = ms_under.dones[n]
            /\ ms_ret.real_reward = ms_ret.reward
            /\ ms_ret.real_done = ms_ret.done

\* a step cut short by done after two of three steps, both rewarded
C3_Witness ==
    /\ ms_ret.op = "step" /\ ms_ret.raised = NoError
    /\ ms_skip = 3
    /\ ms_under.dones = <<FALSE, TRUE>>
    /\ ms_ret.reward = 2
    /\ ms_ret.done

\* element-wise maximum over a sequence of one or two frames
MaxOver(s) == IF Len(s) = 1 THEN s[1] ELSE FrameMax(s[1], s[2])

\* C4 as stated: every MaxAndSkipEnv.step returns the element-wise maximum
\* over the two most recent raw observations of the underlying env.
C4_MaxOfLastTwo ==
    (ms_ret.op = "step" /\ ms_ret.raised = NoError) => ms_ret.obs = MaxOver(ms_recent)

\* C4 amended: MaxAndSkipEnv.step returns the element-wise maximum over the
\* two slots of _obs_buffer; slot 0 holds the observation of underlying step
\* skip-1 of this call if that step was executed, slot 1 that of step skip if
\* it was executed, and a slot not written in this call keeps what it held
\* before the call; so a call that executes all skip >= 2 steps returns the
\* maximum over the two most recent raw observations.
C4_MaxOfBuffer ==
    [][(ms_ret'.op = "step" /\ ms_ret'.raised = NoError) =>
         LET n == Len(ms_under'.dones)
             last == ms_recent'[Len(ms_recent')]
         IN  /\ ms_ret'.obs = FrameMax(ms_obs_buffer'[1], ms_obs_buffer'[2])
             /\ ms_obs_buffer'[1] =
                   IF n = ms_skip /\ ms_skip >= 2 THEN ms_recent'[1]
                   ELSE IF n = ms_skip - 1 THEN last
                   ELSE ms_obs_buffer[1]
             /\ ms_obs_buffer'[2] = IF n = ms_skip THEN last ELSE ms_obs_buffer[2]
             /\ (n = ms_skip /\ ms_skip >= 2) => ms_ret'.obs = MaxOver(ms_recent')]_vars

\* a step cut short before iteration skip-2 returned a stale maximum
C4_Witness ==
    /\ ms_ret.op = "step" /\ ms_ret.raised = NoError
    /\ Len(ms_under.dones) < ms_skip - 1
    /\ ms_ret.obs # MaxOver(ms_recent)
    /\ ms_ret.obs # ZeroFrame

\* the frames FrameStack must return after a reset and the recorded steps
ExpectedStack ==
    LET n == Len(fs_step_obs)
        m == IF n < fs_k THEN n ELSE fs_k
    IN  [i \in 1..fs_k |-> IF i <= fs_k - m THEN fs_reset_ob
                           ELSE fs_step_obs[n - fs_k + i]]

\* C5: after a reset followed by n steps FrameStack returns exactly k frames,
\* oldest first: k - min(n, k) copies of the frame of the underlying reset,
\* then the last min(n, k) frames of the underlying steps; forcing the
\* LazyFrames yields their concatenation.
C5_FrameStack ==
    fs_reset_ob # None =>
        /\ fs_ret.raised = NoError
        /\ IF fs_ret.obs._out = None
           THEN fs_ret.obs._frames = ExpectedStack /\ Len(fs_ret.obs._frames) = fs_k
           ELSE fs_ret.obs._frames = None /\ fs_ret.obs._out = Concat(ExpectedStack)

\* one step after a reset with k = 2: the reset frame, then the step frame
C5_Witness ==
    /\ fs_k = 2
    /\ fs_reset_ob # None
    /\ fs_ret.op = "step"
    /\ Len(fs_step_obs) = 1
    /\ fs_step_obs[1] # fs_reset_ob
    /\ fs_ret.obs._out = None
    /\ fs_ret.obs._frames = <<fs_reset_ob, fs_step_obs[1]>>

\* C6: NoopResetEnv.reset resets the underlying env, then makes between 1 and
\* noop_max steps with action 0, resets the underlying env again right after
\* every such step that reports done, and returns the observation the
\* underlying env produced last, never None.
C6_NoopReset ==
    (nr_ret.op = "reset" /\ nr_ret.raised = NoError) =>
        LET steps == {i \in 1..Len(nr_under) : nr_under[i].call = "step"}
            resets == {i \in 1..Len(nr_under) : nr_under[i].call = "reset"}
        IN  /\ Len(nr_under) >= 1 /\ 1 \in resets
            /\ Cardinality(steps) \in 1..nr_noop_max
            /\ \A i \in steps : nr_under[i].action = 0
            /\ \A i \in steps : nr_under[i].done <=> (i + 1) \in resets
            /\ \A i \in resets : i = 1 \/ ((i - 1) \in steps /\ nr_under[i - 1].done)
            /\ nr_ret.obs # None
            /\ nr_ret.obs = nr_env_obs

\* a reset whose last no-op step reported done returned the frame of the
\* reset that followed
C6_Witness ==
    /\ nr_ret.op = "reset" /\ nr_ret.raised = NoError
    /\ Len(nr_under) >= 4
    /\ nr_under[Len(nr_under)].call = "reset"
    /\ nr_ret.obs = nr_env_obs

\* C7: only a run of train_op changes a network variable; it makes one
\* optimizer step on the qnet variables and then moves every target variable
\* by tau = TauNum / TauDen of its distance to the same-named qnet variable as
\* the optimizer step left it; no other operation changes a target variable.
C7_SoftUpdateOnly ==
    [][/\ (dqn_target' # dqn_target \/ dqn_qnet' # dqn_qnet) =>
              (dqn_op' = "train_op" /\ dqn_global_step' = dqn_global_step + 1)
       /\ dqn_global_step' # dqn_global_step =>
              /\ dqn_global_step' = dqn_global_step + 1
              /\ \A v \in NetVars :
                    TauDen * (dqn_target'[v] - dqn_target[v])
                        = TauNum * (dqn_qnet'[v] - dqn_target[v])]_vars

\* a train run moved a target variable towards a different online value
C7_Witness ==
    /\ dqn_op = "train_op"
    /\ dqn_global_step = 2
    /\ \E v \in NetVars : dqn_target[v] % Scale # 0 /\ dqn_target[v] # dqn_qnet[v]
    /\ \E v, w \in NetVars : dqn_qnet[v] # dqn_qnet[w]

====
